---- MODULE Spec2Model ----
(***************************************************************************)
(* A model of the core data structures of the monkey interpreter:          *)
(*   - object.Environment (internal/object/object.go): the scope chain,    *)
(*     its constructors, Get and Set;                                      *)
(*   - the HashKey derivations of String, Integer and Boolean;             *)
(*   - Hash.Inspect;                                                       *)
(*   - token.LookupIdent and the keyword table;                            *)
(*   - ast.LetStatement.String and ast.ReturnStatement.String.             *)
(* Each part has a specification of its own (SpecEnv, SpecHashKey,         *)
(* SpecInspect, SpecToken, SpecAst); the variables of the other parts are  *)
(* held at their initial values.                                           *)
(***************************************************************************)
EXTENDS Integers, Sequences, FiniteSets, TLC

VARIABLES
    \* ---- object.Environment: the heap of environments
    nenv,          \* number of environments allocated so far; their ids are 1..nenv
    store,         \* store[e]: the map name -> Object of environment e
    outer,         \* outer[e]: the outer link of e (NilEnv when nil)
    \* ---- the call in progress and the last completed call
    pc,            \* "idle", or "Get" while a Get call is walking the chain
    cur,           \* receiver of the innermost active Get frame
    frames,        \* number of Get frames entered by the call in progress
    ret,           \* the last completed call: its arguments and what it returned
    \* ---- history of the calls made (never read by the operations)
    enclosedFrom,  \* enclosedFrom[e]: the argument e was created with (NilEnv for NewEnvironment)
    written,       \* written[e]: name -> the value of the last Set(name, _) called on e
    nops,          \* number of constructor and Set calls made
    \* ---- HashKey: two objects and the keys derived from them
    obj1, obj2,    \* two Hashable objects, each at an address of its own
    key1, key2,    \* obj1.HashKey() and obj2.HashKey() once called (NoKey before)
    hcall,         \* 0, or which String's HashKey call is in progress (1 or 2)
    hash,          \* the running sum64a of the call in progress
    pos,           \* number of bytes the call in progress has written
    \* ---- Hash.Inspect
    pairs,         \* h.Pairs: the HashPairs of a Hash, one per key
    out,           \* what h.Inspect() returned (empty before the call)
    \* ---- token.LookupIdent
    ident,         \* the lexeme looked up
    tok,           \* what LookupIdent(ident) returned (NoTok before the call)
    \* ---- ast statements
    stmt,          \* a LetStatement or a ReturnStatement
    str            \* what stmt.String() returned (empty before the call)

envVars == <<nenv, store, outer, pc, cur, frames, ret, enclosedFrom, written, nops>>

hashKeyVars == <<obj1, obj2, key1, key2, hcall, hash, pos>>

inspectVars == <<pairs, out>>

tokenVars == <<ident, tok>>

astVars == <<stmt, str>>

vars == <<envVars, hashKeyVars, inspectVars, tokenVars, astVars>>

notEnvVars == <<hashKeyVars, inspectVars, tokenVars, astVars>>

notHashKeyVars == <<envVars, inspectVars, tokenVars, astVars>>

notInspectVars == <<envVars, hashKeyVars, tokenVars, astVars>>

notTokenVars == <<envVars, hashKeyVars, inspectVars, astVars>>

notAstVars == <<envVars, hashKeyVars, inspectVars, tokenVars>>

----------------------------------------------------------------------------
(* Bounds of the environment model *)

\* at most MaxOps constructor and Set calls are made in one behaviour
MaxOps == 5

\* generated String values have at most MaxStrLen characters
MaxStrLen == 2

\* generated Integer values lie in -MaxAbsInt..MaxAbsInt
MaxAbsInt == 3

\* a generated Hash holds at most MaxPairs pairs
MaxPairs == 2

\* a generated lexeme extends a keyword by at most MaxSuffixLen characters
MaxSuffixLen == 1

\* a generated identifier has at most MaxIdentLen characters
MaxIdentLen == 2

----------------------------------------------------------------------------
(* Objects *)

\* the nil *Environment
NilEnv == 0

\* the nil Object returned by a failed map lookup
NilObj == [type |-> "nil"]

Integer(v) == [type |-> "INTEGER", Value |-> v]

Boolean(b) == [type |-> "BOOLEAN", Value |-> b]

\* a String object; a Go string is modelled as the sequence of its characters
String(t) == [type |-> "STRING", Value |-> t]

\* a Function object; only its Env field takes part in the environment graph
Function(env) == [type |-> "FUNCTION", Env |-> env]

Names == {"a", "b"}

EmptyStore == [n \in {} |-> NilObj]

\* the objects a caller can pass to Set when n environments exist
EnvObjects(n) == {Integer(1), Integer(2)} \cup {Function(e) : e \in 1..n}

----------------------------------------------------------------------------
(* object.Environment *)

NoCall == [op |-> "none", env |-> NilEnv, name |-> "", val |-> NilObj,
           obj |-> NilObj, ok |-> FALSE]

InitEnv ==
    /\ nenv = 0
    /\ store = <<>>
    /\ outer = <<>>
    /\ pc = "idle"
    /\ cur = NilEnv
    /\ frames = 0
    /\ ret = NoCall
    /\ enclosedFrom = <<>>
    /\ written = <<>>
    /\ nops = 0

\* the allocation &Environment{store: s} with s a fresh empty map: outer is nil
Alloc(o, from) ==
    /\ nenv' = nenv + 1
    /\ store' = Append(store, EmptyStore)
    /\ outer' = Append(outer, o)
    /\ enclosedFrom' = Append(enclosedFrom, from)
    /\ written' = Append(written, EmptyStore)
    /\ nops' = nops + 1
    /\ ret' = [NoCall EXCEPT !.op = "New", !.env = nenv + 1]
    /\ UNCHANGED <<pc, cur, frames>>

\* func NewEnvironment() *Environment
NewEnvironment ==
    /\ pc = "idle"
    /\ nops < MaxOps
    /\ Alloc(NilEnv, NilEnv)

\* mutant: env.outer = env, the new environment linked to itself
NewEnclosedEnvironment_SelfOuter(o) ==
    /\ pc = "idle"
    /\ nops < MaxOps
    /\ Alloc(nenv + 1, o)

\* mutant: the outer environment is copied by value, not referenced: the new
\* environment starts with a snapshot of its bindings and continues at its outer
NewEnclosedEnvironment_Copy(o) ==
    /\ pc = "idle"
    /\ nops < MaxOps
    /\ nenv' = nenv + 1
    /\ store' = Append(store, IF o = NilEnv THEN EmptyStore ELSE store[o])
    /\ outer' = Append(outer, IF o = NilEnv THEN NilEnv ELSE outer[o])
    /\ enclosedFrom' = Append(enclosedFrom, o)
    /\ written' = Append(written, EmptyStore)
    /\ nops' = nops + 1
    /\ ret' = [NoCall EXCEPT !.op = "New", !.env = nenv + 1]
    /\ UNCHANGED <<pc, cur, frames>>

\* mutant: the link is made in both directions (outer.outer = env as well)
NewEnclosedEnvironment_LinkBoth(o) ==
    /\ pc = "idle"
    /\ nops < MaxOps
    /\ nenv' = nenv + 1
    /\ store' = Append(store, EmptyStore)
    /\ outer' = [e \in 1..(nenv + 1) |->
                    IF e = nenv + 1 THEN o ELSE IF e = o THEN nenv + 1 ELSE outer[e]]
    /\ enclosedFrom' = Append(enclosedFrom, o)
    /\ written' = Append(written, EmptyStore)
    /\ nops' = nops + 1
    /\ ret' = [NoCall EXCEPT !.op = "New", !.env = nenv + 1]
    /\ UNCHANGED <<pc, cur, frames>>

\* func NewEnclosedEnvironment(outer *Environment) *Environment
\*     env := NewEnvironment(); env.outer = outer; return env
NewEnclosedEnvironment(o) ==
    /\ pc = "idle"
    /\ nops < MaxOps
    /\ Alloc(o, o)

\* mutant: an existing binding of the outer environment is updated instead
StoreAssign_UpdateOuter(e, name, val) ==
    LET t == IF outer[e] # NilEnv /\ name \in DOMAIN store[outer[e]] THEN outer[e] ELSE e
    IN  [store EXCEPT ![t] = [n \in DOMAIN store[t] \cup {name} |->
                                 IF n = name THEN val ELSE store[t][n]]]

\* e.store[name] = val
StoreAssign(e, name, val) ==
    [store EXCEPT ![e] = [n \in DOMAIN store[e] \cup {name} |->
                             IF n = name THEN val ELSE store[e][n]]]

\* func (e *Environment) Set(name string, val Object) Object
Set(e, name, val) ==
    /\ pc = "idle"
    /\ nops < MaxOps
    /\ store' = StoreAssign(e, name, val)
    /\ written' = [written EXCEPT ![e] = [n \in DOMAIN written[e] \cup {name} |->
                                             IF n = name THEN val ELSE written[e][n]]]
    /\ nops' = nops + 1
    /\ ret' = [NoCall EXCEPT !.op = "Set", !.env = e, !.name = name,
                             !.val = val, !.obj = val]
    /\ UNCHANGED <<nenv, outer, pc, cur, frames, enclosedFrom>>

\* obj, ok := e.store[name]
GetLocal(e, name) ==
    IF name \in DOMAIN store[e] THEN <<store[e][name], TRUE>> ELSE <<NilObj, FALSE>>

\* mutant: the outer environment is consulted even when the name was found
GetMustRecurse_Always(e, ok) == outer[e] # NilEnv

\* if !ok && e.outer != nil
GetMustRecurse(e, ok) == ~ok /\ outer[e] # NilEnv

\* a caller invokes e.Get(name): the first frame is entered
GetCall(e, name) ==
    /\ pc = "idle"
    /\ pc' = "Get"
    /\ cur' = e
    /\ frames' = 1
    /\ ret' = [NoCall EXCEPT !.op = "Get", !.env = e, !.name = name]
    /\ UNCHANGED <<nenv, store, outer, enclosedFrom, written, nops>>

\* the active frame misses and calls e.outer.Get(name)
GetRecurse ==
    /\ pc = "Get"
    /\ GetMustRecurse(cur, GetLocal(cur, ret.name)[2])
    /\ cur' = outer[cur]
    /\ frames' = frames + 1
    /\ UNCHANGED <<nenv, store, outer, pc, ret, enclosedFrom, written, nops>>

\* the active frame returns obj, ok; every calling frame assigns the pair it
\* receives to its own obj, ok and returns it unchanged
GetReturn ==
    /\ pc = "Get"
    /\ ~GetMustRecurse(cur, GetLocal(cur, ret.name)[2])
    /\ ret' = [ret EXCEPT !.obj = GetLocal(cur, ret.name)[1],
                          !.ok = GetLocal(cur, ret.name)[2]]
    /\ pc' = "idle"
    /\ cur' = NilEnv
    /\ frames' = 0
    /\ UNCHANGED <<nenv, store, outer, enclosedFrom, written, nops>>

EnvIdle == InitEnv

NextEnv ==
    \/ NewEnvironment /\ UNCHANGED notEnvVars
    \/ \E o \in 0..nenv : NewEnclosedEnvironment(o) /\ UNCHANGED notEnvVars
    \/ \E e \in 1..nenv, name \in Names, val \in EnvObjects(nenv) :
            Set(e, name, val) /\ UNCHANGED notEnvVars
    \/ \E e \in 1..nenv, name \in Names : GetCall(e, name) /\ UNCHANGED notEnvVars
    \/ GetRecurse /\ UNCHANGED notEnvVars
    \/ GetReturn /\ UNCHANGED notEnvVars

----------------------------------------------------------------------------
(* 64-bit unsigned arithmetic: a uint64 is the sequence of its 8 bytes, least
   significant first *)

U64Zero == <<0, 0, 0, 0, 0, 0, 0, 0>>

RECURSIVE XorBits(_, _, _)
XorBits(x, y, n) ==
    IF n = 0 THEN 0
    ELSE (((x % 2) + (y % 2)) % 2) + 2 * XorBits(x \div 2, y \div 2, n - 1)

\* h ^ uint64(c) for a byte c: only the low byte changes
U64XorByte(h, c) == [h EXCEPT ![1] = XorBits(h[1], c, 8)]

RECURSIVE ColumnSum(_, _, _, _)
ColumnSum(x, y, k, i) ==
    IF i > k THEN 0 ELSE (x[i] * y[k + 1 - i]) + ColumnSum(x, y, k, i + 1)

RECURSIVE MulFrom(_, _, _, _)
MulFrom(x, y, k, carry) ==
    IF k > 8 THEN <<>>
    ELSE LET c == ColumnSum(x, y, k, 1) + carry
         IN  <<c % 256>> \o MulFrom(x, y, k + 1, c \div 256)

\* x * y modulo 2^64
U64Mul(x, y) == MulFrom(x, y, 1, 0)

RECURSIVE Int64Bytes(_, _)
Int64Bytes(v, n) ==
    IF n = 0 THEN <<>> ELSE <<v % 256>> \o Int64Bytes(v \div 256, n - 1)

\* uint64(v) for an int64 v: the same 64 bits, two's complement
U64FromInt64(v) == Int64Bytes(v, 8)

----------------------------------------------------------------------------
(* hash/fnv New64a, Write and Sum64, as String.HashKey uses them *)

\* offset64 = 14695981039346656037 = 0xcbf29ce484222325
Offset64 == <<37, 35, 34, 132, 228, 156, 242, 203>>

\* prime64 = 1099511628211 = 0x00000100000001b3
Prime64 == <<179, 1, 0, 0, 0, 1, 0, 0>>

\* the UTF-8 encoding of the (ASCII) characters the model uses
Utf8 ==
    [c \in {" ", "H", "M", "W", "a", "b", "d", "e", "h", "i", "j", "l", "m", "n",
            "o", "r", "s", "y"} |->
        CASE c = " " -> 32  [] c = "H" -> 72  [] c = "M" -> 77  [] c = "W" -> 87
          [] c = "a" -> 97  [] c = "b" -> 98  [] c = "d" -> 100 [] c = "e" -> 101
          [] c = "h" -> 104 [] c = "i" -> 105 [] c = "j" -> 106 [] c = "l" -> 108
          [] c = "m" -> 109 [] c = "n" -> 110 [] c = "o" -> 111 [] c = "r" -> 114
          [] c = "s" -> 115 [] c = "y" -> 121]

\* []byte(s)
Bytes(t) == [i \in 1..Len(t) |-> Utf8[t[i]]]

\* (s *sum64a) Write, one iteration of its loop: hash ^= c; hash *= prime64
WriteByte(h, c) == U64Mul(U64XorByte(h, c), Prime64)

----------------------------------------------------------------------------
(* HashKey of String, Integer and Boolean *)

\* a pointer to an object: the address is the object's identity
Ref(addr, obj) == [addr |-> addr, obj |-> obj]

\* mutant: the key is derived from the object's address, not from its content
StringHashKeyOf_ByAddress(s, sum) == [Type |-> s.obj.type, Value |-> U64FromInt64(s.addr)]

\* return HashKey{Type: s.Type(), Value: h.Sum64()}
StringHashKeyOf(s, sum) == [Type |-> s.obj.type, Value |-> sum]

\* func (i *Integer) HashKey() HashKey
IntegerHashKey(i) == [Type |-> i.obj.type, Value |-> U64FromInt64(i.obj.Value)]

\* mutant: the key carries the Integer type tag
BooleanHashKey_IntegerTag(b) ==
    [Type |-> "INTEGER", Value |-> U64FromInt64(IF b.obj.Value THEN 1 ELSE 0)]

\* func (b *Boolean) HashKey() HashKey
BooleanHashKey(b) ==
    [Type |-> b.obj.type, Value |-> U64FromInt64(IF b.obj.Value THEN 1 ELSE 0)]

NoKey == [Type |-> "none", Value |-> <<>>]

HelloWorld == <<"H", "e", "l", "l", "o", " ", "W", "o", "r", "l", "d">>

MyNameIsJohnny ==
    <<"M", "y", " ", "n", "a", "m", "e", " ", "i", "s", " ", "j", "o", "h", "n", "n", "y">>

RECURSIVE TextsUpTo(_)
TextsUpTo(n) ==
    IF n = 0 THEN {<<>>}
    ELSE TextsUpTo(n - 1) \cup {Append(t, c) : t \in TextsUpTo(n - 1), c \in {"a", "b"}}

StringValues == TextsUpTo(MaxStrLen) \cup {HelloWorld, MyNameIsJohnny}

IntegerValues == (-MaxAbsInt..MaxAbsInt) \cup {-2147483647, -65536, -256, 255, 256, 2147483647}

Hashables ==
    {String(t) : t \in StringValues} \cup {Integer(v) : v \in IntegerValues}
        \cup {Boolean(b) : b \in BOOLEAN}

HashKeyIdle ==
    /\ obj1 = Ref(1, NilObj)
    /\ obj2 = Ref(2, NilObj)
    /\ key1 = NoKey
    /\ key2 = NoKey
    /\ hcall = 0
    /\ hash = U64Zero
    /\ pos = 0

InitHashKey ==
    /\ obj1 \in {Ref(1, o) : o \in Hashables}
    /\ obj2 \in {Ref(2, o) : o \in Hashables}
    /\ key1 = NoKey
    /\ key2 = NoKey
    /\ hcall = 0
    /\ hash = U64Zero
    /\ pos = 0

Receiver(k) == IF k = 1 THEN obj1 ELSE obj2

\* the caller stores the key that p.HashKey() returned
Returned(k, key) ==
    /\ key1' = IF k = 1 THEN key ELSE key1
    /\ key2' = IF k = 2 THEN key ELSE key2

\* obj_k.HashKey() on an Integer
IntegerHashKeyCall(k) ==
    /\ hcall = 0
    /\ Receiver(k).obj.type = "INTEGER"
    /\ Returned(k, IntegerHashKey(Receiver(k)))
    /\ UNCHANGED <<obj1, obj2, hcall, hash, pos>>

\* obj_k.HashKey() on a Boolean
BooleanHashKeyCall(k) ==
    /\ hcall = 0
    /\ Receiver(k).obj.type = "BOOLEAN"
    /\ Returned(k, BooleanHashKey(Receiver(k)))
    /\ UNCHANGED <<obj1, obj2, hcall, hash, pos>>

\* obj_k.HashKey() on a String is entered: h := fnv.New64a()
StringHashKeyCall(k) ==
    /\ hcall = 0
    /\ Receiver(k).obj.type = "STRING"
    /\ hcall' = k
    /\ hash' = Offset64
    /\ pos' = 0
    /\ UNCHANGED <<obj1, obj2, key1, key2>>

\* h.Write([]byte(s.Value)): the loop consumes the next byte
StringHashKeyWrite ==
    /\ hcall # 0
    /\ pos < Len(Receiver(hcall).obj.Value)
    /\ hash' = WriteByte(hash, Bytes(Receiver(hcall).obj.Value)[pos + 1])
    /\ pos' = pos + 1
    /\ UNCHANGED <<obj1, obj2, key1, key2, hcall>>

\* the loop is over: return HashKey{Type: s.Type(), Value: h.Sum64()}
StringHashKeyReturn ==
    /\ hcall # 0
    /\ pos = Len(Receiver(hcall).obj.Value)
    /\ Returned(hcall, StringHashKeyOf(Receiver(hcall), hash))
    /\ hcall' = 0
    /\ hash' = U64Zero
    /\ pos' = 0
    /\ UNCHANGED <<obj1, obj2>>

NextHashKey ==
    \/ \E k \in {1, 2} : IntegerHashKeyCall(k) /\ UNCHANGED notHashKeyVars
    \/ \E k \in {1, 2} : BooleanHashKeyCall(k) /\ UNCHANGED notHashKeyVars
    \/ \E k \in {1, 2} : StringHashKeyCall(k) /\ UNCHANGED notHashKeyVars
    \/ StringHashKeyWrite /\ UNCHANGED notHashKeyVars
    \/ StringHashKeyReturn /\ UNCHANGED notHashKeyVars

----------------------------------------------------------------------------
(* Inspect of the objects a Hash holds, and Hash.Inspect *)

DigitChar == <<"0", "1", "2", "3", "4", "5", "6", "7", "8", "9">>

RECURSIVE NatText(_)
NatText(n) ==
    IF n < 10 THEN <<DigitChar[n + 1]>>
    ELSE NatText(n \div 10) \o <<DigitChar[(n % 10) + 1]>>

\* func (i *Integer) Inspect() string { return fmt.Sprintf("%d", i.Value) }
IntegerInspect(i) == IF i.Value < 0 THEN <<"-">> \o NatText(-i.Value) ELSE NatText(i.Value)

\* func (b *Boolean) Inspect() string { return fmt.Sprintf("%t", b.Value) }
BooleanInspect(b) ==
    IF b.Value THEN <<"t", "r", "u", "e">> ELSE <<"f", "a", "l", "s", "e">>

\* func (s *String) Inspect() string { return s.Value }
StringInspect(s) == s.Value

\* the dispatch of Object.Inspect() on the dynamic type
Inspect(o) ==
    CASE o.type = "INTEGER" -> IntegerInspect(o)
      [] o.type = "BOOLEAN" -> BooleanInspect(o)
      [] o.type = "STRING" -> StringInspect(o)

HashPair(k, v) == [Key |-> k, Value |-> v]

\* fmt.Sprintf(":%s: %s", pair.Key.Inspect(), pair.Value.Inspect())
SprintfPair(pair) == <<":">> \o Inspect(pair.Key) \o <<":", " ">> \o Inspect(pair.Value)

\* strings.Join(elems, sep)
RECURSIVE Join(_, _)
Join(elems, sep) ==
    IF elems = <<>> THEN <<>>
    ELSE IF Len(elems) = 1 THEN elems[1]
    ELSE elems[1] \o sep \o Join(Tail(elems), sep)

\* the orders in which `for _, pair := range h.Pairs` may visit the pairs of a
\* map: Go leaves the iteration order of a map unspecified
RangeOrders(P) ==
    {o \in [1..Cardinality(P) -> P] : \A i, j \in 1..Cardinality(P) : o[i] = o[j] => i = j}

\* func (h *Hash) Inspect() string, the pairs visited in the order given
HashInspect(order) ==
    <<"{">> \o Join([i \in 1..Len(order) |-> SprintfPair(order[i])], <<",", " ">>) \o <<"}">>

InspectKeys == {Integer(1), Integer(-12), Boolean(TRUE), String(<<"a">>)}

InspectValues == {Integer(2), Integer(305), Boolean(FALSE), String(<<"b", "c">>)}

\* the maps h.Pairs can be: at most one pair per key
Hashes ==
    {P \in SUBSET {HashPair(k, v) : k \in InspectKeys, v \in InspectValues} :
        /\ Cardinality(P) <= MaxPairs
        /\ \A p, q \in P : p.Key = q.Key => p = q}

InspectIdle ==
    /\ pairs = {}
    /\ out = <<>>

InitInspect ==
    /\ pairs \in Hashes
    /\ out = <<>>

\* out := h.Inspect()
HashInspectCall ==
    /\ \E order \in RangeOrders(pairs) : out' = HashInspect(order)
    /\ UNCHANGED pairs

NextInspect ==
    \/ HashInspectCall /\ UNCHANGED notInspectVars

----------------------------------------------------------------------------
(* token: the token types, the keyword table and LookupIdent *)

IDENT == "IDENT"

FUNCTION == "FUNCTION"

LET_ == "LET"

TRUE_ == "TRUE"

FALSE_ == "FALSE"

IF_ == "IF"

ELSE_ == "ELSE"

RETURN == "RETURN"

\* var keywords = map[string]TokenType{...}
keywords ==
    (<<"f", "n">> :> FUNCTION)
        @@ (<<"l", "e", "t">> :> LET_)
        @@ (<<"t", "r", "u", "e">> :> TRUE_)
        @@ (<<"f", "a", "l", "s", "e">> :> FALSE_)
        @@ (<<"i", "f">> :> IF_)
        @@ (<<"e", "l", "s", "e">> :> ELSE_)
        @@ (<<"r", "e", "t", "u", "r", "n">> :> RETURN)

ToLower(c) ==
    CASE c = "A" -> "a" [] c = "E" -> "e" [] c = "F" -> "f" [] c = "I" -> "i"
      [] c = "L" -> "l" [] c = "N" -> "n" [] c = "R" -> "r" [] c = "S" -> "s"
      [] c = "T" -> "t" [] c = "U" -> "u" [] OTHER -> c

ToUpper(c) ==
    CASE c = "a" -> "A" [] c = "e" -> "E" [] c = "f" -> "F" [] c = "i" -> "I"
      [] c = "l" -> "L" [] c = "n" -> "N" [] c = "r" -> "R" [] c = "s" -> "S"
      [] c = "t" -> "T" [] c = "u" -> "U" [] OTHER -> c

\* mutant: the lexeme is lower-cased before the lookup
LookupIdent_CaseInsensitive(id) ==
    LET low == [i \in 1..Len(id) |-> ToLower(id[i])]
    IN  IF low \in DOMAIN keywords THEN keywords[low] ELSE IDENT

\* func LookupIdent(ident string) TokenType
LookupIdent(id) == IF id \in DOMAIN keywords THEN keywords[id] ELSE IDENT

RECURSIVE Suffixes(_)
Suffixes(n) ==
    IF n = 0 THEN {<<>>}
    ELSE Suffixes(n - 1) \cup {Append(t, c) : t \in Suffixes(n - 1), c \in {"n", "s", "_"}}

\* the lexemes looked up: every keyword, its prefixes, its extensions, its
\* capitalised and upper-case spellings, and two plain identifiers
Lexemes ==
    UNION {{SubSeq(k, 1, i) : i \in 0..Len(k)}
             \cup {k \o t : t \in Suffixes(MaxSuffixLen)}
             \cup {[i \in 1..Len(k) |-> IF i = 1 THEN ToUpper(k[i]) ELSE k[i]],
                   [i \in 1..Len(k) |-> ToUpper(k[i])]}
           : k \in DOMAIN keywords}
        \cup {<<"x">>, <<"f", "o", "o", "b", "a", "r">>}

NoTok == ""

TokenIdle ==
    /\ ident = <<>>
    /\ tok = NoTok

InitToken ==
    /\ ident \in Lexemes
    /\ tok = NoTok

\* tok := LookupIdent(ident)
LookupIdentCall ==
    /\ tok' = LookupIdent(ident)
    /\ UNCHANGED ident

NextToken ==
    \/ LookupIdentCall /\ UNCHANGED notTokenVars

----------------------------------------------------------------------------
(* ast: Identifier, LetStatement, ReturnStatement and their String methods *)

Token(type, literal) == [Type |-> type, Literal |-> literal]

Identifier(token, value) == [node |-> "Identifier", Token |-> token, Value |-> value]

\* a nil Expression
NilExpr == [node |-> "nil"]

LetStatement(token, name, value) ==
    [node |-> "LetStatement", Token |-> token, Name |-> name, Value |-> value]

ReturnStatement(token, value) ==
    [node |-> "ReturnStatement", Token |-> token, ReturnValue |-> value]

\* func (i *Identifier) TokenLiteral() string { return i.Token.Literal }
IdentifierTokenLiteral(i) == i.Token.Literal

\* func (i *Identifier) String() string { return i.Value }
IdentifierString(i) == i.Value

\* Expression.String(): Identifier is the Expression this package defines
ExpressionString(e) == IdentifierString(e)

\* mutant: the name is printed by its token literal, not by its String()
LetStatementString_NameLiteral(l) ==
    l.Token.Literal \o <<" ">> \o IdentifierTokenLiteral(l.Name) \o <<" ", "=", " ">>
        \o (IF l.Value # NilExpr THEN ExpressionString(l.Value) ELSE <<>>) \o <<";">>

\* func (l *LetStatement) String() string
LetStatementString(l) ==
    l.Token.Literal \o <<" ">> \o IdentifierString(l.Name) \o <<" ", "=", " ">>
        \o (IF l.Value # NilExpr THEN ExpressionString(l.Value) ELSE <<>>) \o <<";">>

\* func (r *ReturnStatement) String() string
ReturnStatementString(r) ==
    r.Token.Literal \o <<" ">>
        \o (IF r.ReturnValue # NilExpr THEN ExpressionString(r.ReturnValue) ELSE <<>>)
        \o <<";">>

RECURSIVE IdentTexts(_)
IdentTexts(n) ==
    IF n = 1 THEN {<<"x">>, <<"y">>}
    ELSE IdentTexts(n - 1) \cup {Append(t, c) : t \in IdentTexts(n - 1), c \in {"x", "y"}}

\* identifiers as the parser builds them (literal = value) and as a caller may
\* (a literal of its own)
Identifiers ==
    UNION {{Identifier(Token(IDENT, lit), v) : lit \in {v, <<"z">>}}
             : v \in IdentTexts(MaxIdentLen)}

Statements ==
    {LetStatement(Token(LET_, lit), n, v) :
        lit \in {<<"l", "e", "t">>, <<"L", "E", "T">>},
        n \in Identifiers, v \in Identifiers \cup {NilExpr}}
    \cup {ReturnStatement(Token(RETURN, lit), v) :
            lit \in {<<"r", "e", "t", "u", "r", "n">>, <<"R", "E", "T">>},
            v \in Identifiers \cup {NilExpr}}

AstIdle ==
    /\ stmt = NilExpr
    /\ str = <<>>

InitAst ==
    /\ stmt \in Statements
    /\ str = <<>>

\* str := stmt.String() on a *LetStatement
LetStatementStringCall ==
    /\ stmt.node = "LetStatement"
    /\ str' = LetStatementString(stmt)
    /\ UNCHANGED stmt

\* str := stmt.String() on a *ReturnStatement
ReturnStatementStringCall ==
    /\ stmt.node = "ReturnStatement"
    /\ str' = ReturnStatementString(stmt)
    /\ UNCHANGED stmt

NextAst ==
    \/ LetStatementStringCall /\ UNCHANGED notAstVars
    \/ ReturnStatementStringCall /\ UNCHANGED notAstVars

----------------------------------------------------------------------------
(* Specifications *)

InitOfEnv == InitEnv /\ HashKeyIdle /\ InspectIdle /\ TokenIdle /\ AstIdle

SpecEnv == InitOfEnv /\ [][NextEnv]_vars

InitOfHashKey == EnvIdle /\ InitHashKey /\ InspectIdle /\ TokenIdle /\ AstIdle

SpecHashKey == InitOfHashKey /\ [][NextHashKey]_vars

InitOfInspect == EnvIdle /\ HashKeyIdle /\ InitInspect /\ TokenIdle /\ AstIdle

SpecInspect == InitOfInspect /\ [][NextInspect]_vars

InitOfToken == EnvIdle /\ HashKeyIdle /\ InspectIdle /\ InitToken /\ AstIdle

SpecToken == InitOfToken /\ [][NextToken]_vars

InitOfAst == EnvIdle /\ HashKeyIdle /\ InspectIdle /\ TokenIdle /\ InitAst

SpecAst == InitOfAst /\ [][NextAst]_vars

----------------------------------------------------------------------------
(* The outer chain and the reference graph, as the claims speak of them *)

RECURSIVE ChainFrom(_, _)
ChainFrom(e, fuel) ==
    IF e = NilEnv \/ fuel = 0 THEN <<>> ELSE <<e>> \o ChainFrom(outer[e], fuel - 1)

\* e, e.outer, e.outer.outer, ... : at most nenv environments are listed
Chain(e) == ChainFrom(e, nenv)

\* the chain ends at an environment whose outer is nil and repeats no environment
ChainEnds(e) ==
    LET c == Chain(e)
    IN  /\ Len(c) >= 1
        /\ outer[c[Len(c)]] = NilEnv
        /\ \A i, j \in 1..Len(c) : c[i] = c[j] => i = j

\* positions of the chain of e whose store binds name
Binders(e, name) ==
    LET c == Chain(e) IN {i \in 1..Len(c) : name \in DOMAIN store[c[i]]}

Innermost(S) == CHOOSE i \in S : \A j \in S : i <= j

\* what a lookup of name from e is to return
Visible(e, name) ==
    LET b == Binders(e, name)
    IN  IF b = {} THEN <<NilObj, FALSE>>
        ELSE <<store[Chain(e)[Innermost(b)]][name], TRUE>>

GetDone == pc = "idle" /\ ret.op = "Get"

OuterEdges == {<<e, outer[e]>> : e \in {x \in 1..nenv : outer[x] # NilEnv}}

\* e -> f when a Function held in the store of e has Env = f
CaptureEdges ==
    UNION {{<<e, store[e][n].Env>> : n \in {m \in DOMAIN store[e] : store[e][m].type = "FUNCTION"}}
           : e \in 1..nenv}

Succ(S, E) == {p[2] : p \in {q \in E : q[1] \in S}}

RECURSIVE Closure(_, _, _)
Closure(S, E, k) == IF k = 0 THEN S ELSE Closure(S \cup Succ(S, E), E, k - 1)

\* the environments reachable from e by one or more edges of E
ReachPlus(e, E) == Closure(Succ({e}, E), E, nenv)

HasCycle(E) == \E e \in 1..nenv : e \in ReachPlus(e, E)

----------------------------------------------------------------------------
(* Claims about object.Environment, checked under SpecEnv *)

\* C1: Get(name) returns the value bound in the innermost environment of the
\* receiver's outer chain whose store binds name (an inner binding shadows an
\* outer one), and ok = false exactly when no environment of the chain binds it.
C1_GetInnermostBinding ==
    GetDone =>
        /\ <<ret.obj, ret.ok>> = Visible(ret.env, ret.name)
        /\ (ret.ok = FALSE) <=> (Binders(ret.env, ret.name) = {})

\* a Get that returned the receiver's own binding while its outer binds the
\* same name to another value
C1_Witness ==
    /\ GetDone
    /\ outer[ret.env] # NilEnv
    /\ ret.name \in DOMAIN store[ret.env]
    /\ ret.name \in DOMAIN store[outer[ret.env]]
    /\ store[outer[ret.env]][ret.name] # store[ret.env][ret.name]
    /\ ret.obj = store[ret.env][ret.name]

\* C2: Set(name, val) on e writes only e's own store: Set returns val, name is
\* bound to val in e, every other name of e keeps its binding, no other
\* environment's store and no outer link changes; and a later e.Get(name)
\* returns the value of the last Set(name, _) on e.
C2_SetWritesInnermostOnly ==
    /\ [](GetDone /\ ret.name \in DOMAIN written[ret.env]
            => ret.ok /\ ret.obj = written[ret.env][ret.name])
    /\ [][\A e \in 1..nenv, name \in Names, val \in EnvObjects(nenv) :
            Set(e, name, val) =>
                /\ ret'.obj = val
                /\ DOMAIN store'[e] = DOMAIN store[e] \cup {name}
                /\ store'[e][name] = val
                /\ \A n \in DOMAIN store[e] \ {name} : store'[e][n] = store[e][n]
                /\ \A x \in (1..nenv) \ {e} : store'[x] = store[x]
                /\ outer' = outer
                /\ nenv' = nenv]_vars

\* a Set on an enclosed environment of a name its outer binds to another value
C2_Witness ==
    /\ pc = "idle"
    /\ ret.op = "Set"
    /\ outer[ret.env] # NilEnv
    /\ ret.name \in DOMAIN store[outer[ret.env]]
    /\ store[outer[ret.env]][ret.name] # ret.val
    /\ store[ret.env][ret.name] = ret.val

\* C8 (as stated): the reference graph made of outer links and of the
\* environments captured by Function values held in stores has no cycle.
C8_NoReferenceCycle == ~HasCycle(OuterEdges \cup CaptureEdges)

\* C8 (amended): the outer links alone form no cycle; a cycle of the reference
\* graph always passes through a Function held in a store.
C8_OuterLinksAcyclic == ~HasCycle(OuterEdges)

\* an enclosed environment captured by a Function that its outer holds: the
\* reference graph has a cycle, the outer links have none
C8_Witness ==
    \E e \in 1..nenv :
        /\ outer[e] # NilEnv
        /\ \E n \in DOMAIN store[outer[e]] : store[outer[e]][n] = Function(e)
        /\ HasCycle(OuterEdges \cup CaptureEdges)

\* C9: when inner was created by NewEnclosedEnvironment(o) and inner's own
\* store does not bind name, inner.Get(name) returns the value of the last
\* o.Set(name, _), whatever Set calls were made on the two environments.
C9_OuterSharedByReference ==
    (/\ GetDone
     /\ enclosedFrom[ret.env] # NilEnv
     /\ ret.name \notin DOMAIN store[ret.env]
     /\ ret.name \in DOMAIN written[enclosedFrom[ret.env]])
    => /\ ret.ok
       /\ ret.obj = written[enclosedFrom[ret.env]][ret.name]

\* inner.Get(name) returned a Function capturing inner that was Set on the outer
\* environment: that Set was made after inner was created
C9_Witness ==
    /\ GetDone
    /\ enclosedFrom[ret.env] # NilEnv
    /\ ret.name \notin DOMAIN store[ret.env]
    /\ ret.name \in DOMAIN written[enclosedFrom[ret.env]]
    /\ written[enclosedFrom[ret.env]][ret.name] = Function(ret.env)
    /\ ret.obj = Function(ret.env)

\* C10: the outer link of every environment is the one it was created with,
\* every outer chain is finite and acyclic, and a Get call in progress has
\* entered one frame per environment of the receiver's chain up to the active
\* one, can always take its next step, and so ends within as many frames as
\* the chain has environments.
C10_GetTerminates ==
    /\ \A e \in 1..nenv : outer[e] = enclosedFrom[e] /\ ChainEnds(e)
    /\ pc = "Get" =>
        LET c == Chain(ret.env)
        IN  /\ frames \in 1..Len(c)
            /\ c[frames] = cur
            /\ ENABLED (GetRecurse \/ GetReturn)
    /\ GetDone => frames = 0

\* a Get call that has walked a chain of three environments
C10_Witness ==
    /\ pc = "Get"
    /\ Len(Chain(ret.env)) = 3
    /\ frames = 3

----------------------------------------------------------------------------
(* Claims about HashKey, checked under SpecHashKey *)

\* the 8 bytes, least significant first, of a natural number below 2^31
Digits(n) ==
    [i \in 1..8 |-> IF i <= 4 THEN (n \div <<1, 256, 65536, 16777216>>[i]) % 256 ELSE 0]

RECURSIVE AddFrom(_, _, _, _)
AddFrom(x, y, k, carry) ==
    IF k > 8 THEN <<>>
    ELSE <<(x[k] + y[k] + carry) % 256>>
            \o AddFrom(x, y, k + 1, (x[k] + y[k] + carry) \div 256)

\* x + y modulo 2^64
U64Add(x, y) == AddFrom(x, y, 1, 0)

\* FNV-1a 64-bit test vectors: "" -> cbf29ce484222325, "a" -> af63dc4c8601ec8c,
\* "Hello World" -> 3d58dee72d4e0c27, "My name is johnny" -> 79fcb14c64043f16
Fnv1a64Vector(t) ==
    CASE t = <<>> -> <<37, 35, 34, 132, 228, 156, 242, 203>>
      [] t = <<"a">> -> <<140, 236, 1, 134, 76, 220, 99, 175>>
      [] t = HelloWorld -> <<39, 12, 78, 45, 231, 222, 88, 61>>
      [] t = MyNameIsJohnny -> <<22, 63, 4, 100, 76, 177, 252, 121>>

HasVector(t) == t \in {<<>>, <<"a">>, HelloWorld, MyNameIsJohnny}

IsString(p) == p.obj.type = "STRING"

IsIntOrBool(p) == p.obj.type \in {"INTEGER", "BOOLEAN"}

\* what the claim says the key of an Integer or a Boolean is
KeyAsClaimed(p, key) ==
    IF p.obj.type = "BOOLEAN"
    THEN key = [Type |-> "BOOLEAN", Value |-> Digits(IF p.obj.Value THEN 1 ELSE 0)]
    ELSE /\ key.Type = "INTEGER"
         /\ p.obj.Value >= 0 => key.Value = Digits(p.obj.Value)
         /\ p.obj.Value < 0 =>
                /\ key.Value # U64Zero
                /\ U64Add(key.Value, Digits(-p.obj.Value)) = U64Zero

\* C3: two String objects of equal content have equal HashKeys, whatever their
\* addresses; the key is (STRING, FNV-1a 64 of the bytes), here against the
\* published test vectors; "Hello World" and "My name is johnny" get different keys.
C3_StringHashKeyByContent ==
    /\ \A k \in {<<obj1, key1>>, <<obj2, key2>>} :
         (IsString(k[1]) /\ k[2] # NoKey) =>
            /\ k[2].Type = "STRING"
            /\ HasVector(k[1].obj.Value) => k[2].Value = Fnv1a64Vector(k[1].obj.Value)
    /\ (IsString(obj1) /\ IsString(obj2) /\ key1 # NoKey /\ key2 # NoKey) =>
            /\ obj1.obj.Value = obj2.obj.Value => key1 = key2
            /\ (obj1.obj.Value = HelloWorld /\ obj2.obj.Value = MyNameIsJohnny) => key1 # key2

\* two String objects "Hello World" at different addresses, both keys derived
C3_Witness ==
    /\ obj1.obj = String(HelloWorld)
    /\ obj2.obj = String(HelloWorld)
    /\ obj1.addr # obj2.addr
    /\ key1 # NoKey
    /\ key2 = key1

\* C4: for objects that are each an Integer or a Boolean, the HashKeys are equal
\* exactly when type and value are equal; an Integer's key is (INTEGER, value
\* mod 2^64), a Boolean's (BOOLEAN, 1) or (BOOLEAN, 0).
C4_IntBoolHashKeyInjective ==
    /\ \A k \in {<<obj1, key1>>, <<obj2, key2>>} :
         (IsIntOrBool(k[1]) /\ k[2] # NoKey) => KeyAsClaimed(k[1], k[2])
    /\ (IsIntOrBool(obj1) /\ IsIntOrBool(obj2) /\ key1 # NoKey /\ key2 # NoKey) =>
         ((key1 = key2) <=> (obj1.obj = obj2.obj))

\* Integer -1 keyed as 2^64 - 1 beside Boolean true, and Integer 1 likewise
C4_Witness ==
    /\ obj1.obj = Integer(-1)
    /\ key1 = [Type |-> "INTEGER", Value |-> <<255, 255, 255, 255, 255, 255, 255, 255>>]
    /\ obj2.obj = Boolean(TRUE)
    /\ key2 # NoKey
    /\ key2 # key1

----------------------------------------------------------------------------
(* Claim about Hash.Inspect, checked under SpecInspect *)

\* `k: v` for one pair, as the claim renders it
PairAsClaimed(pair) == Inspect(pair.Key) \o <<":", " ">> \o Inspect(pair.Value)

RECURSIVE CommaSeparated(_)
CommaSeparated(texts) ==
    IF Len(texts) = 0 THEN <<>>
    ELSE IF Len(texts) = 1 THEN texts[1]
    ELSE texts[1] \o <<",", " ">> \o CommaSeparated(Tail(texts))

\* C5: Hash.Inspect() renders `{k: v, ...}`: a brace, for each pair (in some
\* order) the key's inspection, a colon, a space and the value's inspection,
\* the pairs separated by ", ", and a closing brace; `{}` for an empty hash.
C5_HashInspectForm ==
    out # <<>> =>
        \E order \in RangeOrders(pairs) :
            out = <<"{">>
                    \o CommaSeparated([i \in 1..Len(order) |-> PairAsClaimed(order[i])])
                    \o <<"}">>

----------------------------------------------------------------------------
(* Claim about token.LookupIdent, checked under SpecToken *)

\* the kind the claim gives each lexeme
KindAsClaimed(id) ==
    CASE id = <<"f", "n">> -> "FUNCTION"
      [] id = <<"l", "e", "t">> -> "LET"
      [] id = <<"t", "r", "u", "e">> -> "TRUE"
      [] id = <<"f", "a", "l", "s", "e">> -> "FALSE"
      [] id = <<"i", "f">> -> "IF"
      [] id = <<"e", "l", "s", "e">> -> "ELSE"
      [] id = <<"r", "e", "t", "u", "r", "n">> -> "RETURN"
      [] OTHER -> "IDENT"

\* C6: LookupIdent returns the keyword kind exactly for the seven keywords,
\* matched case-sensitively on the whole lexeme, and IDENT for any other lexeme.
C6_LookupIdentKeywords == tok # NoTok => tok = KindAsClaimed(ident)

\* RETURN was returned for `return`
C6_Witness == ident = <<"r", "e", "t", "u", "r", "n">> /\ tok = "RETURN"

----------------------------------------------------------------------------
(* Claim about the statements' String(), checked under SpecAst *)

TextOrNothing(e) == IF e = NilExpr THEN <<>> ELSE e.Value

\* C7: LetStatement.String() is `let <name> = <value>;` and
\* ReturnStatement.String() is `return <expr>;`: the leading word is the token
\* literal, <value>/<expr> the String() of the expression, nothing when absent.
C7_StatementCanonicalForm ==
    str # <<>> =>
        /\ stmt.node = "LetStatement" =>
             str = stmt.Token.Literal \o <<" ">> \o stmt.Name.Value \o <<" ", "=", " ">>
                     \o TextOrNothing(stmt.Value) \o <<";">>
        /\ stmt.node = "ReturnStatement" =>
             str = stmt.Token.Literal \o <<" ">> \o TextOrNothing(stmt.ReturnValue) \o <<";">>

\* `let x = yx;` printed for a LetStatement whose name carries another token literal
C7_Witness ==
    /\ stmt.node = "LetStatement"
    /\ stmt.Name.Value = <<"x">>
    /\ stmt.Name.Token.Literal # <<"x">>
    /\ str = <<"l", "e", "t", " ", "x", " ", "=", " ", "y", "x", ";">>

====
